---------------------------- MODULE Spec2Model ----------------------------
(***************************************************************************)
(* Model of laser/laser.py (GcodeExtension): the generation pass `effect`, *)
(* the overlay renderers draw_debug_traces and draw_unit_reference, and    *)
(* clear_debug, over a document tree.                                      *)
(*                                                                         *)
(* Numbers.  Lengths are exact halves in the cases checked (bed_width / 2  *)
(* of an integral bed width), so every length is held as an integer count  *)
(* of HALF units: H(n) is the length n, HalfOf(n) is the length n / 2.     *)
(* Scale factors are plain integers.                                       *)
(*                                                                         *)
(* Strings are sequences of one-character strings where the code slices    *)
(* or parses them (the root's height attribute).                           *)
(***************************************************************************)
EXTENDS Integers, Sequences, FiniteSets, TLC

VARIABLES
    root,            \* self.document.getroot(): [height, kids]
    options,         \* self.options of the pass in progress / last run
    curves,          \* the curve list parse_root returned (input of draw_debug_traces)
    transformation,  \* the forward chain handed to parse_root, <<>> before any
    parsed,          \* TRUE once parse_root has been called in the last pass
    gcode,           \* TRUE once compile_to_file has written the last pass's output
    status,          \* "idle" | "ok" (last call returned) | "error" (last call raised)
    error,           \* the exception the last call raised, "" if none
    edited,          \* the user changed the drawing since the last call
    same,            \* the last call repeated the call before it: the same
                     \* options, on the document that call left
    before           \* the root's children when the last call started

vars == <<root, options, curves, transformation, parsed, gcode, status, error,
          edited, same, before>>

---------------------------------------------------------------------------
(* Bounds of the model *)

\* the most shapes the user draws in the document
MaxShapes == 2
\* the longest curve list handed to draw_debug_traces on its own
MaxCurves == 2
\* the most children of a document root handed to clear_debug on its own
MaxKids == 3

---------------------------------------------------------------------------
(* Numbers *)

H(n) == 2 * n
HalfOf(n) == n

\* the bed widths and heights tried (positive, zero and negative: none is rejected)
BedDims == {-2, 0, 3, 4}
Offsets == {0, 1}
ScalingFactors == {1, 2}
Units == {"mm", "in"}
Origins == {"top-left", "bottom-left", "center"}
\* a machine_origin value the code does not know
AnyOrigins == Origins \cup {"top-right"}

---------------------------------------------------------------------------
(* svg_to_gcode.svg_parser.Transformation: an ordered chain of operations *)

Translate(dx, dy) == [op |-> "translate", a |-> dx, b |-> dy]
Scale(sx, sy) == [op |-> "scale", a |-> sx, b |-> sy]

\* add_translation / add_scale append one operation; add_scale with one
\* argument is the uniform scale
add_translation(chain, dx, dy) == Append(chain, Translate(dx, dy))
add_scale(chain, sx, sy) == Append(chain, Scale(sx, sy))
add_scale1(chain, s) == add_scale(chain, s, s)

ApplyOp(o, p) ==
    IF o.op = "translate" THEN <<p[1] + o.a, p[2] + o.b>>
    ELSE <<p[1] * o.a, p[2] * o.b>>

\* the chain applied to a point, oldest operation first
RECURSIVE Apply(_, _)
Apply(chain, p) ==
    IF chain = <<>> THEN p
    ELSE Apply(Tail(chain), ApplyOp(Head(chain), p))

ApplyAll(chain, pts) == [i \in 1..Len(pts) |-> Apply(chain, pts[i])]

---------------------------------------------------------------------------
(* Document nodes.  Every node has the same fields:                        *)
(*   tag, id, label (inkscape:label), kids, geom (its coordinates),        *)
(*   chain (the transformation a rendered path was drawn with),            *)
(*   text (a label's two numbers), unit, style                             *)

Element(tag) ==
    [tag |-> tag, id |-> "", label |-> "", kids |-> <<>>, geom |-> <<>>,
     chain |-> <<>>, text |-> <<>>, unit |-> "", style |-> ""]

TracesId == "debug_traces"
ReferencesId == "debug_references"

\* a path the user drew, with the vertices of its outline in document space
UserPath(pts) == [Element("path") EXCEPT !.geom = pts, !.style = "user"]
\* a group or layer of the user's
UserGroup(id, kids) == [Element("g") EXCEPT !.id = id, !.kids = kids]


---------------------------------------------------------------------------
(* The root's height attribute, as line 129 reads it *)

Digits == {"0", "1", "2", "3", "4", "5", "6", "7", "8", "9"}

DigitVal(c) ==
    CASE c = "0" -> 0 [] c = "1" -> 1 [] c = "2" -> 2 [] c = "3" -> 3
      [] c = "4" -> 4 [] c = "5" -> 5 [] c = "6" -> 6 [] c = "7" -> 7
      [] c = "8" -> 8 [] c = "9" -> 9

\* root.get("height") of a root without the attribute
None == <<"None">>

AllDigits(s) == \A i \in 1..Len(s) : s[i] \in Digits
AllZeros(s) == \A i \in 1..Len(s) : s[i] = "0"

\* str.isnumeric(): non-empty and every character numeric
isnumeric(s) == Len(s) > 0 /\ AllDigits(s)

\* s[:-2]
DropLast2(s) == IF Len(s) >= 2 THEN SubSeq(s, 1, Len(s) - 2) ELSE <<>>

RECURSIVE IntOf(_)
IntOf(s) ==
    IF s = <<>> THEN 0
    ELSE IntOf(SubSeq(s, 1, Len(s) - 1)) * 10 + DigitVal(s[Len(s)])

DotAt(s) == IF \E i \in 1..Len(s) : s[i] = "."
            THEN CHOOSE i \in 1..Len(s) : s[i] = "." /\ \A j \in 1..(i - 1) : s[j] # "."
            ELSE 0
IntPart(s) == IF DotAt(s) = 0 THEN s ELSE SubSeq(s, 1, DotAt(s) - 1)
FracPart(s) == IF DotAt(s) = 0 THEN <<>> ELSE SubSeq(s, DotAt(s) + 1, Len(s))

\* float(s) accepts digits with at most one point and a digit on one side
\* of it (signs, exponents and blanks are not among the strings tried)
float_accepts(s) ==
    /\ AllDigits(IntPart(s))
    /\ AllDigits(FracPart(s))
    /\ Len(IntPart(s)) + Len(FracPart(s)) > 0

\* float(s) in half units; the fractions tried are .0 and .5
float(s) ==
    H(IntOf(IntPart(s)))
      + (IF FracPart(s) # <<>> /\ Head(FracPart(s)) = "5"
            /\ AllZeros(Tail(FracPart(s))) THEN 1 ELSE 0)

\* line 128-129:
\*   canvas_height = float(height_str) if height_str.isnumeric()
\*                   else float(height_str[:-2])
canvas_height(height_str) ==
    IF height_str = None
    THEN [error |-> "AttributeError", value |-> 0]
    ELSE LET s == IF isnumeric(height_str) THEN height_str ELSE DropLast2(height_str)
         IN  IF float_accepts(s)
             THEN [error |-> "", value |-> float(s)]
             ELSE [error |-> "ValueError", value |-> 0]

\* the height attributes tried: "8", "8mm", "4.5mm", "4.5" (read as 4),
\* "mm" (float("") raises) and a root without one
HeightStrs ==
    { <<"8">>, <<"8", "m", "m">>, <<"4", ".", "5", "m", "m">>, <<"4", ".", "5">>,
      <<"m", "m">>, None }

---------------------------------------------------------------------------
(* clear_debug, lines 216-227 *)

\* root.find("{svg}g[@id='...']"): the first CHILD of the root that is a g
\* with that id, 0 for None
find_g(kids, id) ==
    IF \E i \in 1..Len(kids) : kids[i].tag = "g" /\ kids[i].id = id
    THEN CHOOSE i \in 1..Len(kids) :
            /\ kids[i].tag = "g" /\ kids[i].id = id
            /\ \A j \in 1..(i - 1) : ~(kids[j].tag = "g" /\ kids[j].id = id)
    ELSE 0

\* kids without the children at the indices in gone
remove(kids, gone) ==
    LET keep == {i \in 1..Len(kids) : i \notin gone}
        RECURSIVE Pick(_)
        Pick(i) == IF i > Len(kids) THEN <<>>
                   ELSE (IF i \in keep THEN <<kids[i]>> ELSE <<>>) \o Pick(i + 1)
    IN  Pick(1)

\* a plausible slip: only the trace overlay is looked up and removed
clear_debug_traces_only(kids) ==
    remove(kids, {find_g(kids, TracesId)} \ {0})

\* both groups are looked up first, then each one found is removed
clear_debug(kids) ==
    LET debug_traces == find_g(kids, TracesId)
        debug_references == find_g(kids, ReferencesId)
    IN  remove(kids, {debug_traces, debug_references} \ {0})

---------------------------------------------------------------------------
(* The forward chain, lines 96-106 *)

\* a plausible slip: the centring translation with the sign of x lost
forward_chain_unsigned(o) ==
    LET t1 == add_translation(<<>>, H(o.horizontal_offset), H(o.vertical_offset))
        t2 == add_scale1(t1, o.scaling_factor)
    IN  IF o.machine_origin = "center"
        THEN add_translation(t2, HalfOf(o.bed_width), HalfOf(o.bed_height))
        ELSE t2

forward_chain(o) ==
    LET t1 == add_translation(<<>>, H(o.horizontal_offset), H(o.vertical_offset))
        t2 == add_scale1(t1, o.scaling_factor)
    IN  IF o.machine_origin = "center"
        THEN add_translation(t2, -HalfOf(o.bed_width), HalfOf(o.bed_height))
        ELSE t2

\* lines 104-106
transform_origin(o) == o.machine_origin # "top-left"

---------------------------------------------------------------------------
(* svg_to_gcode, the external library, as far as effect relies on it *)

\* parse_root: one curve per path of the document, groups entered in
\* document order, defs skipped; each vertex goes through the root
\* transformation.  A curve remembers the style of the path it came from.
RECURSIVE parse_root(_, _, _)
parse_root(kids, flip, chain) ==
    IF kids = <<>> THEN <<>>
    ELSE LET n == Head(kids)
             here == CASE n.tag = "path" ->
                            << [pts |-> ApplyAll(chain, n.geom), flipped |-> flip,
                                from |-> n.style] >>
                       [] n.tag = "g" -> parse_root(n.kids, flip, chain)
                       [] OTHER -> <<>>
         IN  here \o parse_root(Tail(kids), flip, chain)

\* LineSegmentChain.line_segment_approximation: the curve's vertices
line_segment_approximation(curve) == curve.pts

\* debug_methods.arrow_defs()
arrow_defs == [Element("defs") EXCEPT !.id = "arrow_defs"]

\* debug_methods.to_svg_path(approximation, color="red", transformation=...):
\* every vertex mapped through the transformation
to_svg_path(approximation, chain) ==
    [Element("path") EXCEPT !.geom = ApplyAll(chain, approximation),
                            !.chain = chain, !.style = "red"]


---------------------------------------------------------------------------
(* draw_debug_traces, lines 120-155 *)

\* a plausible slip: the flip and the shift added in the other order
change_origin_swapped(origin, height, bed_width, bed_height) ==
    LET c1 == IF origin # "top-left"
              THEN add_scale(add_translation(<<>>, 0, -height), 1, -1)
              ELSE <<>>
    IN  IF origin = "center"
        THEN add_translation(c1, HalfOf(bed_width), HalfOf(bed_height))
        ELSE c1

\* lines 141-148: the overlay chain, built anew for every curve
change_origin(origin, height, bed_width, bed_height) ==
    LET c1 == IF origin # "top-left"
              THEN add_translation(add_scale(<<>>, 1, -1), 0, -height)
              ELSE <<>>
    IN  IF origin = "center"
        THEN add_translation(c1, HalfOf(bed_width), HalfOf(bed_height))
        ELSE c1

\* lines 138-153, one turn of the loop: the element appended for a curve
trace_of(curve, o, height) ==
    to_svg_path(line_segment_approximation(curve),
                change_origin(o.machine_origin, height, o.bed_width, o.bed_height))

\* The whole method on the root's children r, the root's height attribute,
\* the options and the curves.  to_svg_path is the library's: what it does
\* with a chain of no segments is not this program's to decide, so the
\* caller gives both outcomes (empty_raises): it raises, or it returns an
\* element.  Either way line 153 appends whatever it returned.
draw_debug_traces(r, height_str, o, cs, empty_raises) ==
    LET h == canvas_height(height_str)
        group == [Element("g") EXCEPT
                    !.id = TracesId,
                    !.label = "debug laser traces",
                    !.kids = <<arrow_defs>> \o
                             [i \in 1..Len(cs) |-> trace_of(cs[i], o, h.value)]]
    IN  IF h.error # "" THEN [kids |-> r, error |-> h.error]
        ELSE IF empty_raises /\ \E i \in 1..Len(cs) : cs[i].pts = <<>>
        THEN [kids |-> r, error |-> "IndexError"]
        ELSE [kids |-> Append(r, group), error |-> ""]

---------------------------------------------------------------------------
(* draw_unit_reference, lines 157-214 *)

stroke_width == 2
size == 7
text_dx == 28
text_above == 6
text_below == 9

\* line 170
reference_points_svg(bed_width, bed_height) ==
    << <<H(0), H(0)>>, <<H(0), H(bed_height)>>,
       <<H(bed_width), H(0)>>, <<H(bed_width), H(bed_height)>> >>

\* a plausible slip: the rows of bottom-left and top-left exchanged
reference_points_gcode_swapped(origin, bed_width, bed_height) ==
    CASE origin = "top-left" ->
           << <<H(0), H(bed_height)>>, <<H(0), H(0)>>,
              <<H(bed_width), H(bed_height)>>, <<H(bed_width), H(0)>> >>
      [] origin = "bottom-left" ->
           << <<H(0), H(0)>>, <<H(0), H(bed_height)>>,
              <<H(bed_width), H(0)>>, <<H(bed_width), H(bed_height)>> >>
      [] origin = "center" ->
           << <<-HalfOf(bed_width), HalfOf(bed_height)>>,
              <<-HalfOf(bed_width), -HalfOf(bed_height)>>,
              <<HalfOf(bed_width), HalfOf(bed_height)>>,
              <<HalfOf(bed_width), -HalfOf(bed_height)>> >>

\* lines 171-176; an origin that is no key of the dict raises KeyError
reference_points_gcode(origin, bed_width, bed_height) ==
    CASE origin = "bottom-left" ->
           << <<H(0), H(bed_height)>>, <<H(0), H(0)>>,
              <<H(bed_width), H(bed_height)>>, <<H(bed_width), H(0)>> >>
      [] origin = "top-left" ->
           << <<H(0), H(0)>>, <<H(0), H(bed_height)>>,
              <<H(bed_width), H(0)>>, <<H(bed_width), H(bed_height)>> >>
      [] origin = "center" ->
           << <<-HalfOf(bed_width), HalfOf(bed_height)>>,
              <<-HalfOf(bed_width), -HalfOf(bed_height)>>,
              <<HalfOf(bed_width), HalfOf(bed_height)>>,
              <<HalfOf(bed_width), -HalfOf(bed_height)>> >>

\* a plausible slip: the comparison turned round
x_direction_flipped(x) == IF x > 0 THEN 1 ELSE -1

\* line 184
x_direction(x) == IF x > 0 THEN -1 ELSE 1

\* line 194
y_direction(y) == IF y > 0 THEN -1 ELSE 1

\* a plausible slip: the two nudges exchanged
text_y_exchanged(y) ==
    y - (IF y <= 0 THEN 1 ELSE 0) * H(text_below) + (IF y > 0 THEN 1 ELSE 0) * H(text_above)

\* line 207: y - (y <= 0) * 6 + (y > 0) * 9
text_y(y) ==
    y - (IF y <= 0 THEN 1 ELSE 0) * H(text_above) + (IF y > 0 THEN 1 ELSE 0) * H(text_below)

Line(x1, y1, x2, y2) ==
    [Element("line") EXCEPT !.geom = << <<x1, y1>>, <<x2, y2>> >>,
                            !.style = "stroke:black;stroke-width:2"]

\* lines 179-212, one turn of the loop
reference_point(p, gcode_point, unit) ==
    LET x == p[1]
        y == p[2]
        \* stroke_width / 2 is one unit
        horizontal == Line(x - x_direction(x) * HalfOf(stroke_width), y,
                           x + x_direction(x) * H(size), y)
        vertical == Line(x, y + HalfOf(stroke_width),
                         x, y + y_direction(y) * H(size))
        plus_sign == [Element("g") EXCEPT !.kids = <<horizontal, vertical>>]
        text_box == [Element("text") EXCEPT
                       !.geom = << <<x - H(text_dx), text_y(y)>> >>,
                       !.text = gcode_point,
                       !.unit = unit]
    IN  [Element("g") EXCEPT !.kids = <<plus_sign, text_box>>]

draw_unit_reference(r, o) ==
    IF o.machine_origin \notin {"bottom-left", "top-left", "center"}
    THEN [kids |-> r, error |-> "KeyError"]
    ELSE LET svg == reference_points_svg(o.bed_width, o.bed_height)
             gc == reference_points_gcode(o.machine_origin, o.bed_width, o.bed_height)
             group == [Element("g") EXCEPT
                         !.id = ReferencesId,
                         !.label = "debug reference points",
                         !.kids = [i \in 1..4 |-> reference_point(svg[i], gc[i], o.unit)]]
         IN  [kids |-> Append(r, group), error |-> ""]


---------------------------------------------------------------------------
(* effect, lines 45-118 *)

\* a plausible slip: the old overlay cleared only after the document is parsed
effect_clearing_late(r, height_str, o, empty_raises) ==
    LET chain == forward_chain(o)
        cs == parse_root(r, transform_origin(o), chain)
        cleared == clear_debug(r)
        traced == IF o.draw_debug
                  THEN draw_debug_traces(cleared, height_str, o, cs, empty_raises)
                  ELSE [kids |-> cleared, error |-> ""]
        marked == IF o.draw_debug /\ traced.error = ""
                  THEN draw_unit_reference(traced.kids, o)
                  ELSE traced
    IN  [kids |-> marked.kids, error |-> marked.error, chain |-> chain,
         curves |-> cs, parsed |-> TRUE, gcode |-> TRUE]

\* The pass on the root's children r.  The result names how far it got:
\* the document it left, the chain and the curves handed on, and the
\* exception that ended it, if any.
effect(r, height_str, o, empty_raises) ==
    LET cleared == clear_debug(r)                                 \* line 88
        chain == forward_chain(o)                                  \* 96-102
        cs == parse_root(cleared, transform_origin(o), chain)      \* 108
        \* lines 110-111 hand the curves to the compiler and write the file
        traced == IF o.draw_debug
                  THEN draw_debug_traces(cleared, height_str, o, cs, empty_raises)
                  ELSE [kids |-> cleared, error |-> ""]
        marked == IF o.draw_debug /\ traced.error = ""
                  THEN draw_unit_reference(traced.kids, o)
                  ELSE traced
    IN  [kids |-> marked.kids, error |-> marked.error, chain |-> chain,
         curves |-> cs, parsed |-> TRUE, gcode |-> TRUE]

---------------------------------------------------------------------------
(* States and steps *)

OptionsOf(origin, w, h, ho, vo, sf, unit, dd) ==
    [machine_origin |-> origin, bed_width |-> w, bed_height |-> h,
     horizontal_offset |-> ho, vertical_offset |-> vo, scaling_factor |-> sf,
     unit |-> unit, draw_debug |-> dd]

AllOptions ==
    { OptionsOf(origin, w, h, ho, vo, sf, unit, dd) :
        origin \in AnyOrigins, w \in BedDims, h \in BedDims, ho \in Offsets,
        vo \in Offsets, sf \in ScalingFactors, unit \in Units, dd \in BOOLEAN }

\* the outlines the user draws, in half units of document space
Outline1 == << <<H(1), H(0)>>, <<H(2), H(3)>> >>
Outline2 == << <<H(0), H(0)>>, <<H(4), H(0)>>, <<H(4), H(2)>> >>
Shapes == {Outline1}

Idle ==
    /\ transformation = <<>>
    /\ parsed = FALSE
    /\ gcode = FALSE
    /\ status = "idle"
    /\ error = ""
    /\ edited = FALSE
    /\ same = FALSE
    /\ before = <<>>

UserShapes(kids) == { i \in 1..Len(kids) : kids[i].style = "user" }

\* the user draws one more shape
AddShape ==
    /\ Cardinality(UserShapes(root.kids)) < MaxShapes
    /\ \E pts \in Shapes : root' = [root EXCEPT !.kids = Append(@, UserPath(pts))]
    /\ edited' = TRUE
    /\ UNCHANGED <<options, curves, transformation, parsed, gcode, status, error,
                   same, before>>

\* the user deletes a shape
DeleteShape ==
    /\ \E i \in UserShapes(root.kids) : root' = [root EXCEPT !.kids = remove(@, {i})]
    /\ edited' = TRUE
    /\ UNCHANGED <<options, curves, transformation, parsed, gcode, status, error,
                   same, before>>

\* one generation pass, with the origin and draw_debug the host passes in
Effect ==
    \E origin \in AnyOrigins, dd \in BOOLEAN, empty_raises \in BOOLEAN :
        LET o == [options EXCEPT !.machine_origin = origin, !.draw_debug = dd]
            res == effect(root.kids, root.height, o, empty_raises)
        IN  /\ options' = o
            /\ root' = [root EXCEPT !.kids = res.kids]
            /\ curves' = res.curves
            /\ transformation' = res.chain
            /\ parsed' = res.parsed
            /\ gcode' = res.gcode
            /\ status' = IF res.error = "" THEN "ok" ELSE "error"
            /\ error' = res.error
            /\ edited' = FALSE
            /\ same' = (status = "ok" /\ ~edited /\ o = options)
            /\ before' = root.kids

\* draw_debug_traces called on its own, on the curves and options of Init
DrawDebugTraces ==
    /\ status = "idle"
    /\ \E empty_raises \in BOOLEAN :
         LET res == draw_debug_traces(root.kids, root.height, options, curves,
                                      empty_raises)
         IN  /\ root' = [root EXCEPT !.kids = res.kids]
             /\ status' = IF res.error = "" THEN "ok" ELSE "error"
             /\ error' = res.error
    /\ before' = root.kids
    /\ UNCHANGED <<options, curves, transformation, parsed, gcode, edited, same>>

\* draw_unit_reference called on its own, on the options of Init
DrawUnitReference ==
    /\ status = "idle"
    /\ LET res == draw_unit_reference(root.kids, options)
       IN  /\ root' = [root EXCEPT !.kids = res.kids]
           /\ status' = IF res.error = "" THEN "ok" ELSE "error"
           /\ error' = res.error
    /\ before' = root.kids
    /\ UNCHANGED <<options, curves, transformation, parsed, gcode, edited, same>>

\* clear_debug called on its own; it never raises
ClearDebug ==
    /\ root' = [root EXCEPT !.kids = clear_debug(@)]
    /\ status' = "ok"
    /\ same' = (status = "ok")
    /\ before' = root.kids
    /\ UNCHANGED <<options, curves, transformation, parsed, gcode, error, edited>>

---------------------------------------------------------------------------
(* Spec: the life of one drawing.  It starts with no overlay in it; the    *)
(* user draws and deletes shapes, and runs generation passes.  The bed,    *)
(* the offsets, the scale and the unit are set once; the origin and        *)
(* draw_debug are chosen for every pass.                                   *)

LifeOptions ==
    { OptionsOf("top-left", 3, 4, 0, 0, 1, "mm", FALSE),
      OptionsOf("top-left", 0, -2, 1, 0, 2, "in", FALSE) }

Init ==
    /\ root \in [height : { <<"8", "m", "m">>, None }, kids : {<<>>}]
    /\ options \in LifeOptions
    /\ Idle
    /\ curves = <<>>

Next == AddShape \/ DeleteShape \/ Effect

Spec == Init /\ [][Next]_vars

---------------------------------------------------------------------------
(* SpecPass: one pass, over every bed, offset, scale, unit, origin and     *)
(* draw_debug, on a drawing of zero, one or two shapes.                    *)

InitPass ==
    /\ root \in [height : { <<"8">>, <<"4", ".", "5", "m", "m">> },
                 kids : { <<>>, <<UserPath(Outline1)>>,
                          <<UserPath(Outline1), UserPath(Outline2)>> }]
    /\ options \in { o \in AllOptions :
                       o.machine_origin = "top-left" /\ o.draw_debug = FALSE }
    /\ Idle
    /\ curves = <<>>

FirstPass == status = "idle" /\ Effect

NextPass == FirstPass

SpecPass == InitPass /\ [][NextPass]_vars

---------------------------------------------------------------------------
(* SpecTraces: draw_debug_traces on every list of at most MaxCurves        *)
(* curves, a curve of no vertex among them.                                *)

Curve(pts) == [pts |-> pts, flipped |-> FALSE, from |-> "user"]
CurveSet == { Curve(<<>>), Curve(Outline1), Curve(Outline2) }

RECURSIVE SeqsUpTo(_, _)
SeqsUpTo(S, n) ==
    IF n = 0 THEN { <<>> }
    ELSE LET shorter == SeqsUpTo(S, n - 1)
         IN  shorter \cup { Append(q, x) : q \in shorter, x \in S }

InitTraces ==
    /\ root \in [height : HeightStrs, kids : {<<>>}]
    /\ options \in { o \in AllOptions :
                       /\ o.draw_debug /\ o.unit = "mm" /\ o.scaling_factor = 1
                       /\ o.horizontal_offset = 0 /\ o.vertical_offset = 0
                       /\ o.bed_width \in {0, 3} /\ o.bed_height \in {-2, 4} }
    /\ Idle
    /\ curves \in SeqsUpTo(CurveSet, MaxCurves)

NextTraces == DrawDebugTraces

SpecTraces == InitTraces /\ [][NextTraces]_vars

---------------------------------------------------------------------------
(* SpecRef: draw_unit_reference on every bed, unit and origin.             *)

InitRef ==
    /\ root \in [height : { <<"8">> }, kids : { <<>>, <<UserPath(Outline1)>> }]
    /\ options \in { o \in AllOptions :
                       /\ o.draw_debug /\ o.scaling_factor = 1
                       /\ o.horizontal_offset = 0 /\ o.vertical_offset = 0 }
    /\ Idle
    /\ curves = <<>>

NextRef == DrawUnitReference

SpecRef == InitRef /\ [][NextRef]_vars

---------------------------------------------------------------------------
(* SpecClear: clear_debug, called again and again, on every document of    *)
(* at most MaxKids children: overlay groups, shapes, and layers of the     *)
(* user's that hold an overlay group.                                      *)

TraceGroup ==
    [Element("g") EXCEPT !.id = TracesId, !.label = "debug laser traces",
                         !.kids = <<arrow_defs>>]
ReferenceGroup ==
    [Element("g") EXCEPT !.id = ReferencesId, !.label = "debug reference points"]

DocNodes ==
    { TraceGroup, ReferenceGroup, UserPath(Outline1),
      UserGroup("layer1", <<TraceGroup>>), UserGroup("layer2", <<ReferenceGroup>>) }

InitClear ==
    /\ root \in [height : { <<"8">> }, kids : SeqsUpTo(DocNodes, MaxKids)]
    /\ options \in { OptionsOf("top-left", 3, 4, 0, 0, 1, "mm", FALSE) }
    /\ Idle
    /\ curves = <<>>

NextClear == ClearDebug

SpecClear == InitClear /\ [][NextClear]_vars


---------------------------------------------------------------------------
(* What the claims speak of *)

IsOverlay(n) == n.tag = "g" /\ n.id \in {TracesId, ReferencesId}
IsPath(n) == n.tag = "path"
NonEmpty(c) == c.pts # <<>>

\* the overlay groups among the root's children, in document order
Overlay(kids) == SelectSeq(kids, IsOverlay)

\* the groups with this id anywhere in the tree
RECURSIVE CountId(_, _)
CountId(kids, id) ==
    IF kids = <<>> THEN 0
    ELSE (IF Head(kids).tag = "g" /\ Head(kids).id = id THEN 1 ELSE 0)
           + CountId(Head(kids).kids, id) + CountId(Tail(kids), id)

\* the group the last call appended
Last(kids) == kids[Len(kids)]

\* C1 (Spec): after every generation pass, whatever passes came before and
\* whatever draw_debug was in each, the document holds at most one group
\* with id debug_traces and at most one with id debug_references; after a
\* pass with draw_debug that returned it holds exactly one of each.
C1_AtMostOneOverlayOfEachKind ==
    status # "idle" =>
        /\ CountId(root.kids, TracesId) <= 1
        /\ CountId(root.kids, ReferencesId) <= 1
        /\ (status = "ok" /\ options.draw_debug) =>
              /\ CountId(root.kids, TracesId) = 1
              /\ CountId(root.kids, ReferencesId) = 1

\* a pass with draw_debug on a document that held both overlays already
C1_Witness ==
    /\ status = "ok" /\ options.draw_debug
    /\ CountId(before, TracesId) = 1 /\ CountId(before, ReferencesId) = 1
    /\ CountId(root.kids, TracesId) = 1 /\ CountId(root.kids, ReferencesId) = 1

\* C2 (Spec): a pass with draw_debug run a second time on the same inputs
\* leaves the overlay the first one left: the two groups of the first pass
\* are gone before parse_root reads the document, so no curve of the
\* second pass comes from an overlay path, and the document holds the two
\* new groups and no others.
C2_RegenerationKeepsOverlay ==
    (status = "ok" /\ same /\ options.draw_debug) =>
        /\ Overlay(root.kids) = Overlay(before)
        /\ Len(Overlay(root.kids)) = 2
        /\ \A i \in 1..Len(curves) : curves[i].from = "user"

\* the second of two equal passes with draw_debug over a drawn shape
C2_Witness ==
    /\ status = "ok" /\ same /\ options.draw_debug
    /\ curves # <<>>
    /\ Len(Overlay(before)) = 2

\* C3 (SpecClear): for every document, after one call of clear_debug no
\* node with id debug_traces or debug_references remains, and a second
\* call in succession leaves the document as the first left it.
C3_ClearIsCompleteAndIdempotent ==
    status = "ok" =>
        /\ CountId(root.kids, TracesId) = 0
        /\ CountId(root.kids, ReferencesId) = 0
        /\ same => root.kids = before

\* C4 (SpecPass): with a machine origin that is none of top-left,
\* bottom-left and center, the pass aborts with an error, whatever
\* draw_debug is: no forward chain is handed on, no output is written and
\* no overlay group is appended.
C4_UnknownOriginAborts ==
    (status # "idle" /\ options.machine_origin \notin Origins) =>
        /\ status = "error"
        /\ ~parsed
        /\ ~gcode
        /\ Overlay(root.kids) = <<>>

\* C5 (SpecPass): the forward chain is Translate(horizontal_offset,
\* vertical_offset), then Scale(scaling_factor), then, for origin center
\* only, Translate(-bed_width/2, +bed_height/2); so with origin center,
\* zero offsets and unit scale it takes (w/2, 0) to (0, h/2).
C5_ForwardChain ==
    parsed =>
        LET o == options
        IN  /\ transformation =
                  << Translate(H(o.horizontal_offset), H(o.vertical_offset)),
                     Scale(o.scaling_factor, o.scaling_factor) >>
                  \o (IF o.machine_origin = "center"
                      THEN << Translate(-HalfOf(o.bed_width), HalfOf(o.bed_height)) >>
                      ELSE <<>>)
            /\ ( /\ o.machine_origin = "center"
                 /\ o.horizontal_offset = 0 /\ o.vertical_offset = 0
                 /\ o.scaling_factor = 1 )
                 => Apply(transformation, <<HalfOf(o.bed_width), H(0)>>)
                        = <<H(0), HalfOf(o.bed_height)>>

\* a pass with origin center, zero offsets and unit scale on a 3 by 4 bed
C5_Witness ==
    /\ parsed /\ status = "ok"
    /\ options.machine_origin = "center"
    /\ options.horizontal_offset = 0 /\ options.vertical_offset = 0
    /\ options.scaling_factor = 1
    /\ options.bed_width = 3 /\ options.bed_height = 4
    /\ Len(transformation) = 3

\* the overlay chain the claim C6 names, for a known origin
C6_Chain(origin, height, w, h) ==
    CASE origin = "top-left" -> <<>>
      [] origin = "bottom-left" -> << Scale(1, -1), Translate(0, -height) >>
      [] origin = "center" ->
           << Scale(1, -1), Translate(0, -height), Translate(HalfOf(w), HalfOf(h)) >>

\* C6 (SpecTraces): every curve draw_debug_traces renders is drawn with the
\* chain: empty for top-left; Scale(1, -1) then Translate(0, -canvas_height)
\* for bottom-left; those two then Translate(+bed_width/2, +bed_height/2)
\* for center; applied in that order to every vertex, the same for every
\* curve of the pass.
C6_OverlayChain ==
    (status = "ok" /\ options.machine_origin \in Origins) =>
        LET g == Last(root.kids)
            c == C6_Chain(options.machine_origin, canvas_height(root.height).value,
                          options.bed_width, options.bed_height)
        IN  /\ g.id = TracesId
            /\ Len(g.kids) = Len(curves) + 1
            /\ \A i \in 1..Len(curves) :
                 /\ g.kids[i + 1].chain = c
                 /\ Len(g.kids[i + 1].geom) = Len(curves[i].pts)
                 /\ \A j \in 1..Len(curves[i].pts) :
                      g.kids[i + 1].geom[j] = Apply(c, curves[i].pts[j])

\* two curves rendered for origin center
C6_Witness ==
    /\ status = "ok" /\ options.machine_origin = "center"
    /\ Len(curves) = 2 /\ curves[1].pts # <<>> /\ curves[2].pts # <<>>
    /\ Len(Last(root.kids).kids) = 3
    /\ options.bed_width = 3 /\ options.bed_height = 4


---------------------------------------------------------------------------
(* The reference markers: what draw_unit_reference left for corner i *)

Marker(i) == Last(root.kids).kids[i]
HorizontalArm(i) == Marker(i).kids[1].kids[1].geom
VerticalArm(i) == Marker(i).kids[1].kids[2].geom
TextBox(i) == Marker(i).kids[2]

\* the document corners in the order TL, BL, TR, BR
Corner(i, w, h) ==
    CASE i = 1 -> <<H(0), H(0)>> [] i = 2 -> <<H(0), H(h)>>
      [] i = 3 -> <<H(w), H(0)>> [] i = 4 -> <<H(w), H(h)>>

\* the corner across the bed from corner i
Opposite(i, w, h) == Corner(5 - i, w, h)

\* the machine coordinates the claim C7 names for corner i
C7_Label(origin, i, w, h) ==
    CASE origin = "bottom-left" ->
           (CASE i = 1 -> <<H(0), H(h)>> [] i = 2 -> <<H(0), H(0)>>
              [] i = 3 -> <<H(w), H(h)>> [] i = 4 -> <<H(w), H(0)>>)
      [] origin = "top-left" ->
           (CASE i = 1 -> <<H(0), H(0)>> [] i = 2 -> <<H(0), H(h)>>
              [] i = 3 -> <<H(w), H(0)>> [] i = 4 -> <<H(w), H(h)>>)
      [] origin = "center" ->
           (CASE i = 1 -> <<-HalfOf(w), HalfOf(h)>> [] i = 2 -> <<-HalfOf(w), -HalfOf(h)>>
              [] i = 3 -> <<HalfOf(w), HalfOf(h)>> [] i = 4 -> <<HalfOf(w), -HalfOf(h)>>)

\* C7 (SpecRef): for every bed width w and height h, zero included, and
\* each origin, the label at the document corners TL (0,0), BL (0,h),
\* TR (w,0), BR (w,h) is the machine pair: bottom-left (0,h), (0,0), (w,h),
\* (w,0); top-left (0,0), (0,h), (w,0), (w,h); center (-w/2,h/2),
\* (-w/2,-h/2), (w/2,h/2), (w/2,-h/2); each with the configured unit.
C7_CornerLabels ==
    status = "ok" =>
        /\ Last(root.kids).id = ReferencesId
        /\ Len(Last(root.kids).kids) = 4
        /\ \A i \in 1..4 :
             LET p == Corner(i, options.bed_width, options.bed_height)
             IN  /\ VerticalArm(i)[1][1] = p[1]
                 /\ HorizontalArm(i)[1][2] = p[2]
                 /\ TextBox(i).text = C7_Label(options.machine_origin, i,
                                               options.bed_width, options.bed_height)
                 /\ TextBox(i).unit = options.unit

\* the labels of a bed of width zero for origin center, in inches
C7_Witness ==
    /\ status = "ok" /\ options.machine_origin = "center"
    /\ options.bed_width = 0 /\ options.bed_height = 3 /\ options.unit = "in"
    /\ TextBox(4).text = <<0, -3>>

\* the directions the claim C8 names, read off the arms drawn
C8_Directions ==
    \A i \in 1..4 :
        LET p == Corner(i, options.bed_width, options.bed_height)
        IN  /\ HorizontalArm(i)[2][1] - p[1] = (IF p[1] > 0 THEN -1 ELSE 1) * H(size)
            /\ VerticalArm(i)[2][2] - p[2] = (IF p[2] > 0 THEN -1 ELSE 1) * H(size)

\* both arms of every marker run from the corner towards the opposite
\* edges of the bed, not away from them
C8_ArmsInward ==
    \A i \in 1..4 :
        LET p == Corner(i, options.bed_width, options.bed_height)
            q == Opposite(i, options.bed_width, options.bed_height)
        IN  /\ (HorizontalArm(i)[2][1] - p[1]) * (q[1] - p[1]) >= 0
            /\ (VerticalArm(i)[2][2] - p[2]) * (q[2] - p[2]) >= 0

\* C8 as claimed (SpecRef): at every corner (x, y) the horizontal direction
\* is -1 if x>0 else +1 and the vertical one -1 if y>0 else +1, and both
\* arms of all four markers extend towards the bed interior.
C8_Original ==
    status = "ok" => (C8_Directions /\ C8_ArmsInward)

\* C8 as amended (SpecRef): the directions are as claimed for every bed;
\* the arms extend towards the bed interior when the bed width and height
\* are not negative.  At corner (0, h) with h>0 the vertical direction is
\* -1 and the horizontal one +1.
C8_ArmDirections ==
    status = "ok" =>
        /\ C8_Directions
        /\ (options.bed_width >= 0 /\ options.bed_height >= 0) => C8_ArmsInward
        /\ options.bed_height > 0 =>
             /\ VerticalArm(2)[2][2] - H(options.bed_height) = -H(size)
             /\ HorizontalArm(2)[2][1] - H(0) = H(size)

\* the markers of a 3 by 4 bed
C8_Witness ==
    /\ status = "ok" /\ options.bed_width = 3 /\ options.bed_height = 4
    /\ HorizontalArm(4)[2][1] = H(3) - H(size)
    /\ VerticalArm(2)[2][2] = H(4) - H(size)

\* C9 as claimed (SpecRef): the label sits above the corner (smaller y)
\* when y>0 and below it (larger y) when y<=0.
C9_Original ==
    status = "ok" =>
        \A i \in 1..4 :
            LET y == Corner(i, options.bed_width, options.bed_height)[2]
            IN  /\ y > 0 => TextBox(i).geom[1][2] < y
                /\ y <= 0 => TextBox(i).geom[1][2] > y

\* C9 as amended (SpecRef): the label sits below the corner (larger y, by
\* 9) when y>0 and above it (smaller y, by 6) when y<=0.
C9_LabelNudge ==
    status = "ok" =>
        \A i \in 1..4 :
            LET y == Corner(i, options.bed_width, options.bed_height)[2]
            IN  /\ y > 0 => TextBox(i).geom[1][2] = y + H(9)
                /\ y <= 0 => TextBox(i).geom[1][2] = y - H(6)

\* the labels of a bed with corners at y = 0 and at y = 4
C9_Witness ==
    /\ status = "ok" /\ options.bed_height = 4
    /\ TextBox(1).geom[1][2] < H(0)
    /\ TextBox(2).geom[1][2] > H(4)

\* the path elements of the trace group, in order
TracePaths == SelectSeq(Last(root.kids).kids, IsPath)

\* C10 (SpecTraces): for every list of curves, draw_debug_traces puts into
\* the trace group one path per non-empty curve, in the order of the list,
\* and none for an empty curve, and raises no error (the root's height
\* being one the method can read).
C10_OnePathPerNonEmptyCurve ==
    (status # "idle" /\ canvas_height(root.height).error = "") =>
        /\ status = "ok"
        /\ LET drawn == SelectSeq(curves, NonEmpty)
           IN  /\ Len(TracePaths) = Len(drawn)
               /\ \A i \in 1..Len(drawn) :
                    TracePaths[i].geom = ApplyAll(TracePaths[i].chain, drawn[i].pts)

\* what holds of the code: with no empty curve in the list, one path per
\* curve, in the order of the list, and no error
TracesOfNonEmptyCurves ==
    ( /\ status # "idle" /\ canvas_height(root.height).error = ""
      /\ \A i \in 1..Len(curves) : NonEmpty(curves[i]) ) =>
        /\ status = "ok"
        /\ Len(TracePaths) = Len(curves)
        /\ \A i \in 1..Len(curves) :
             TracePaths[i].geom = ApplyAll(TracePaths[i].chain, curves[i].pts)

=============================================================================
